---- MODULE Spec2Model ----
(***************************************************************************)
(* A model of src/src/vars.rs: the TI variable file container (File<T>),   *)
(* its comment region, its length and checksum fields, and the read-mode   *)
(* options.  Byte arrays are sequences of numbers 0..255; the code's       *)
(* zero-based index i is position i + 1 of the sequence (At, Put).         *)
(***************************************************************************)
EXTENDS Integers, Sequences, FiniteSets, TLC

(***************************************************************************)
(* Bounds of the model.                                                    *)
(***************************************************************************)
\* How many writes through a raw mutable reference (comment_raw_mut,
\* signature_mut, variable_length_raw_mut, checksum_raw_mut, variable_mut)
\* one behaviour makes.
MaxRawWrites == 1
\* The longest payload a variable serializes to.
MaxPayloadLen == 2

(***************************************************************************)
(* Program constants.                                                      *)
(***************************************************************************)
FILE_SIGNATURE_SIZE == 11
FILE_COMMENT_SIZE == 42
FILE_VARIABLE_LENGTH_SIZE == 2
FILE_CHECKSUM_SIZE == 2
SPACE_AS_NUMBER == 32

SIGNATURE_OFFSET == 0
SIGNATURE_SIZE == FILE_SIGNATURE_SIZE
COMMENT_OFFSET == SIGNATURE_OFFSET + SIGNATURE_SIZE
COMMENT_SIZE == FILE_COMMENT_SIZE
VARIABLE_LENGTH_OFFSET == COMMENT_OFFSET + COMMENT_SIZE
VARIABLE_LENGTH_SIZE == FILE_VARIABLE_LENGTH_SIZE
HEADER_SIZE == SIGNATURE_SIZE + COMMENT_SIZE + VARIABLE_LENGTH_SIZE
VARIABLE_OFFSET == VARIABLE_LENGTH_OFFSET + VARIABLE_LENGTH_SIZE
CHECKSUM_SIZE == FILE_CHECKSUM_SIZE

\* "**TI83F*" followed by 0x1A, 0x0A, 0x00.
TI_SIGNATURE == <<42, 42, 84, 73, 56, 51, 70, 42, 26, 10, 0>>

(***************************************************************************)
(* Arrays with the code's zero-based indices.                              *)
(***************************************************************************)
At(a, i) == a[i + 1]
Put(a, i, b) == [a EXCEPT ![i + 1] = b]
Fill(n, b) == [i \in 1..n |-> b]

\* u16::from_le_bytes and its inverse on a two-byte array.
u16_from_le_bytes(a) == (At(a, 0) + 256 * At(a, 1)) % 65536
u16_to_le_bytes(n) == <<(n % 65536) % 256, (n % 65536) \div 256>>

(***************************************************************************)
(* ReadMode and the read options.                                          *)
(***************************************************************************)
ReadMode_error == 0
ReadMode_fix == 1
ReadMode_ignore == 2
ReadMode_default == ReadMode_error
ReadModes == {ReadMode_error, ReadMode_fix, ReadMode_ignore}

FileReadOptions_default ==
    [signature |-> ReadMode_default,
     variable_length |-> ReadMode_default,
     checksum |-> ReadMode_default]

(***************************************************************************)
(* String::from_utf8: whether a byte sequence is well-formed UTF-8.        *)
(***************************************************************************)
IsCont(b) == b \in 128..191

RECURSIVE Utf8From(_, _)
Utf8From(s, i) ==
    IF i > Len(s) THEN TRUE
    ELSE LET b == s[i]
             n == Len(s)
         IN  IF b < 128 THEN Utf8From(s, i + 1)
             ELSE IF b \in 194..223
                  THEN i + 1 <= n /\ IsCont(s[i + 1]) /\ Utf8From(s, i + 2)
             ELSE IF b \in 224..239
                  THEN /\ i + 2 <= n
                       /\ IsCont(s[i + 1])
                       /\ IsCont(s[i + 2])
                       /\ (b = 224 => s[i + 1] >= 160)
                       /\ (b = 237 => s[i + 1] <= 159)
                       /\ Utf8From(s, i + 3)
             ELSE IF b \in 240..244
                  THEN /\ i + 3 <= n
                       /\ IsCont(s[i + 1])
                       /\ IsCont(s[i + 2])
                       /\ IsCont(s[i + 3])
                       /\ (b = 240 => s[i + 1] >= 144)
                       /\ (b = 244 => s[i + 1] <= 143)
                       /\ Utf8From(s, i + 4)
             ELSE FALSE

String_from_utf8(s) ==
    IF Utf8From(s, 1) THEN [ok |-> TRUE, val |-> s] ELSE [ok |-> FALSE, val |-> <<>>]

\* str::trim_end_matches(' '): the string without its trailing spaces.
RECURSIVE trim_end_matches(_)
trim_end_matches(s) ==
    IF Len(s) > 0 /\ s[Len(s)] = SPACE_AS_NUMBER
    THEN trim_end_matches(SubSeq(s, 1, Len(s) - 1))
    ELSE s

(***************************************************************************)
(* The comment region (a [u8; 42]) and its operations.                     *)
(***************************************************************************)
comment_null_terminator_position(c) ==
    IF \E i \in 0..(COMMENT_SIZE - 1) : At(c, i) = 0
    THEN [some |-> TRUE,
          pos |-> CHOOSE i \in 0..(COMMENT_SIZE - 1) :
                     /\ At(c, i) = 0
                     /\ \A j \in 0..(i - 1) : At(c, j) # 0]
    ELSE [some |-> FALSE, pos |-> 0]

\* A variant that looks at the last byte only.
comment_ending_spaces_last_only(c) ==
    IF At(c, COMMENT_SIZE - 1) = SPACE_AS_NUMBER THEN 1 ELSE 0

RECURSIVE EndingFrom(_, _)
EndingFrom(c, i) ==
    IF i >= 0 /\ At(c, i) = SPACE_AS_NUMBER THEN 1 + EndingFrom(c, i - 1) ELSE 0

comment_ending_spaces(c) == EndingFrom(c, COMMENT_SIZE - 1)

comment_str(c, trim) ==
    LET p == comment_null_terminator_position(c)
        trim2 == IF p.some THEN FALSE ELSE trim
        raw == IF p.some THEN SubSeq(c, 1, p.pos) ELSE c
        r == String_from_utf8(raw)
    IN  IF ~r.ok THEN r
        ELSE IF trim2 THEN [ok |-> TRUE, val |-> trim_end_matches(r.val)]
        ELSE r

\* A variant that never looks for the terminator.
comment_length_padded_only(c) == COMMENT_SIZE - comment_ending_spaces(c)

comment_length(c) ==
    LET p == comment_null_terminator_position(c)
    IN  IF p.some THEN p.pos ELSE COMMENT_SIZE - comment_ending_spaces(c)

is_comment_zero_terminated(c) == \E i \in 0..(COMMENT_SIZE - 1) : At(c, i) = 0

\* A variant that puts the terminator in the last byte of the region.
make_comment_zero_terminated_last(c) ==
    IF is_comment_zero_terminated(c) THEN c
    ELSE IF comment_ending_spaces(c) = 0 THEN c
         ELSE Put(c, COMMENT_SIZE - 1, 0)

make_comment_zero_terminated(c) ==
    IF is_comment_zero_terminated(c) THEN c
    ELSE LET ending_spaces == comment_ending_spaces(c)
         IN  IF ending_spaces = 0 THEN c
             ELSE LET first_space_index == COMMENT_SIZE - ending_spaces
                  IN  Put(c, first_space_index, 0)

\* A variant that replaces the terminator alone.
make_comment_padded_one(c) ==
    LET p == comment_null_terminator_position(c)
    IN  IF ~p.some THEN c ELSE Put(c, p.pos, SPACE_AS_NUMBER)

make_comment_padded(c) ==
    LET p == comment_null_terminator_position(c)
    IN  IF ~p.some THEN c
        ELSE [k \in 1..COMMENT_SIZE |->
                 IF k - 1 >= p.pos THEN SPACE_AS_NUMBER ELSE c[k]]

\* A variant of the loop that goes on after the terminator, filling with zeros.
RECURSIVE SetCommentFrom_zero_fill(_, _, _, _)
SetCommentFrom_zero_fill(c, text, zero_terminated, i) ==
    IF i >= COMMENT_SIZE THEN c
    ELSE LET b == IF i < Len(text) THEN text[i + 1]
                  ELSE IF zero_terminated THEN 0 ELSE SPACE_AS_NUMBER
         IN  SetCommentFrom_zero_fill(Put(c, i, b), text, zero_terminated, i + 1)

\* The loop of set_comment from index i on.
RECURSIVE SetCommentFrom(_, _, _, _)
SetCommentFrom(c, text, zero_terminated, i) ==
    IF i >= COMMENT_SIZE THEN c
    ELSE IF i < Len(text)
         THEN SetCommentFrom(Put(c, i, text[i + 1]), text, zero_terminated, i + 1)
         ELSE IF zero_terminated THEN Put(c, i, 0)
              ELSE SetCommentFrom(Put(c, i, SPACE_AS_NUMBER), text, zero_terminated, i + 1)

\* A variant that pads with spaces whatever zero_terminated is.
set_comment_unterminated(c, text, zero_terminated) == SetCommentFrom(c, text, FALSE, 0)

set_comment(c, text, zero_terminated) == SetCommentFrom(c, text, zero_terminated, 0)

(***************************************************************************)
(* The checksum of a payload: the low 16 bits of the sum of its bytes.     *)
(***************************************************************************)
RECURSIVE SumBytes(_)
SumBytes(s) == IF Len(s) = 0 THEN 0 ELSE s[1] + SumBytes(Tail(s))

checksum_compute(payload_bytes) == SumBytes(payload_bytes) % 65536

(***************************************************************************)
(* Inputs.                                                                 *)
(***************************************************************************)
\* "hello", "a\0b", "h\u{e9}", "hi ", and texts of 41, 42 and 43 bytes; the
\* 43-byte one ends in a two-byte character that the cut at 42 splits.
Texts ==
    { <<>>,
      <<104, 101, 108, 108, 111>>,
      <<97, 0, 98>>,
      <<104, 195, 169>>,
      <<104, 105, 32>>,
      Fill(41, 120),
      Fill(42, 121),
      Fill(41, 122) \o <<195, 169>> }

\* Where and what a caller writes through comment_raw_mut.
RawIndices == {0, 5, 41}
RawBytes == {0, 32, 65, 195}

\* Where and what a caller writes through the unchecked accessors.
SignatureIndices == {0, 10}
HeaderBytes == {0, 1, 2}

PayloadBytes == {1, 255}
Payloads == UNION {[1..n -> PayloadBytes] : n \in 0..MaxPayloadLen}

(***************************************************************************)
(* The state: the five fields of File<T> (variable holds the bytes that    *)
(* Variable::bytes returns), the last operation called, and the number of  *)
(* raw writes made so far.                                                 *)
(***************************************************************************)
VARIABLES signature, comment, variable_length, variable, checksum, last, writes

fields == <<signature, comment, variable_length, variable, checksum>>
vars == <<signature, comment, variable_length, variable, checksum, last, writes>>

Op(name) ==
    [op |-> name, text |-> <<>>, zt |-> FALSE, changed |-> FALSE,
     res |-> "ok", buf |-> 0, opts |-> FileReadOptions_default]

(***************************************************************************)
(* The read accessors of File<T>.                                          *)
(***************************************************************************)
File_variable_length == u16_from_le_bytes(variable_length)

File_checksum == u16_from_le_bytes(checksum)

\* A variant that leaves the checksum out.
File_size_no_checksum ==
    SIGNATURE_SIZE + COMMENT_SIZE + VARIABLE_LENGTH_SIZE + File_variable_length

File_size ==
    SIGNATURE_SIZE + COMMENT_SIZE + VARIABLE_LENGTH_SIZE
        + File_variable_length + CHECKSUM_SIZE

\* A variant that writes the length of the payload in place of the stored bytes.
File_bytes_recomputed ==
    signature \o comment \o u16_to_le_bytes(Len(variable)) \o variable \o checksum

File_bytes == signature \o comment \o variable_length \o variable \o checksum

File_checksum_offset == VARIABLE_OFFSET + File_variable_length

(***************************************************************************)
(* A file built from valid fields.                                         *)
(***************************************************************************)
Init ==
    /\ signature = TI_SIGNATURE
    /\ comment \in {Fill(COMMENT_SIZE, SPACE_AS_NUMBER), Fill(COMMENT_SIZE, 0)}
    /\ variable \in Payloads
    /\ variable_length = u16_to_le_bytes(Len(variable))
    /\ checksum = u16_to_le_bytes(checksum_compute(variable))
    /\ last = Op("new")
    /\ writes = 0

(***************************************************************************)
(* The operations on the comment region.                                   *)
(***************************************************************************)
Call_set_comment(text, zero_terminated) ==
    /\ comment' = set_comment(comment, text, zero_terminated)
    /\ last' = [Op("set_comment") EXCEPT !.text = text, !.zt = zero_terminated,
                                         !.changed = (comment' # comment)]
    /\ UNCHANGED <<signature, variable_length, variable, checksum, writes>>

Call_make_comment_zero_terminated ==
    /\ comment' = make_comment_zero_terminated(comment)
    /\ last' = [Op("make_comment_zero_terminated") EXCEPT !.changed = (comment' # comment)]
    /\ UNCHANGED <<signature, variable_length, variable, checksum, writes>>

Call_make_comment_padded ==
    /\ comment' = make_comment_padded(comment)
    /\ last' = [Op("make_comment_padded") EXCEPT !.changed = (comment' # comment)]
    /\ UNCHANGED <<signature, variable_length, variable, checksum, writes>>

Write_comment_raw_mut(i, b) ==
    /\ writes < MaxRawWrites
    /\ writes' = writes + 1
    /\ comment' = Put(comment, i, b)
    /\ last' = [Op("comment_raw_mut") EXCEPT !.changed = (comment' # comment)]
    /\ UNCHANGED <<signature, variable_length, variable, checksum>>

(***************************************************************************)
(* The variable and the unchecked accessors.                               *)
(***************************************************************************)
Write_variable_mut(v) ==
    /\ writes < MaxRawWrites
    /\ writes' = writes + 1
    /\ v # variable
    /\ variable' = v
    /\ last' = Op("variable_mut")
    /\ UNCHANGED <<signature, comment, variable_length, checksum>>

Write_signature_mut(i, b) ==
    /\ writes < MaxRawWrites
    /\ writes' = writes + 1
    /\ signature' = Put(signature, i, b)
    /\ last' = Op("signature_mut")
    /\ UNCHANGED <<comment, variable_length, variable, checksum>>

Write_variable_length_raw_mut(i, b) ==
    /\ writes < MaxRawWrites
    /\ writes' = writes + 1
    /\ variable_length' = Put(variable_length, i, b)
    /\ last' = Op("variable_length_raw_mut")
    /\ UNCHANGED <<signature, comment, variable, checksum>>

Write_checksum_raw_mut(i, b) ==
    /\ writes < MaxRawWrites
    /\ writes' = writes + 1
    /\ checksum' = Put(checksum, i, b)
    /\ last' = Op("checksum_raw_mut")
    /\ UNCHANGED <<signature, comment, variable_length, variable>>

(***************************************************************************)
(* The comment region alone: every comment operation on one file.          *)
(***************************************************************************)
CommentInit == Init /\ variable = <<1>>

CommentNext ==
    \/ \E text \in Texts, zt \in BOOLEAN : Call_set_comment(text, zt)
    \/ Call_make_comment_zero_terminated
    \/ Call_make_comment_padded
    \/ \E i \in RawIndices, b \in RawBytes : Write_comment_raw_mut(i, b)

SpecComment == CommentInit /\ [][CommentNext]_vars

(***************************************************************************)
(* Decoding a file from raw bytes under FileReadOptions: the signature,    *)
(* the comment, the declared length, the payload and the checksum, each    *)
(* structural check following its ReadMode.                                *)
(***************************************************************************)
DecodeError(kind) ==
    [res |-> kind, signature |-> <<>>, comment |-> <<>>, variable_length |-> <<>>,
     variable |-> <<>>, checksum |-> <<>>]

\* A variant in which Fix keeps the stored value.
checksum_validate_fix_keeps(stored, payload_bytes, mode) ==
    IF mode = ReadMode_error /\ u16_from_le_bytes(stored) # checksum_compute(payload_bytes)
    THEN [ok |-> FALSE, val |-> stored]
    ELSE [ok |-> TRUE, val |-> stored]

checksum_validate(stored, payload_bytes, mode) ==
    IF mode = ReadMode_ignore THEN [ok |-> TRUE, val |-> stored]
    ELSE IF u16_from_le_bytes(stored) = checksum_compute(payload_bytes)
         THEN [ok |-> TRUE, val |-> stored]
         ELSE IF mode = ReadMode_fix
              THEN [ok |-> TRUE, val |-> u16_to_le_bytes(checksum_compute(payload_bytes))]
              ELSE [ok |-> FALSE, val |-> stored]

signature_validate(stored, mode) ==
    IF mode = ReadMode_ignore \/ stored = TI_SIGNATURE THEN [ok |-> TRUE, val |-> stored]
    ELSE IF mode = ReadMode_fix THEN [ok |-> TRUE, val |-> TI_SIGNATURE]
         ELSE [ok |-> FALSE, val |-> stored]

\* The number of payload bytes to take and the length to store.
length_validate(stored, actual, mode) ==
    IF mode = ReadMode_ignore \/ u16_from_le_bytes(stored) = actual
    THEN [ok |-> TRUE, val |-> stored, take |-> u16_from_le_bytes(stored)]
    ELSE IF mode = ReadMode_fix
         THEN [ok |-> TRUE, val |-> u16_to_le_bytes(actual), take |-> actual]
         ELSE [ok |-> FALSE, val |-> stored, take |-> 0]

File_decode(buf, opts) ==
    LET sig == signature_validate(
                   SubSeq(buf, SIGNATURE_OFFSET + 1, SIGNATURE_OFFSET + SIGNATURE_SIZE),
                   opts.signature)
        com == SubSeq(buf, COMMENT_OFFSET + 1, COMMENT_OFFSET + COMMENT_SIZE)
        len == length_validate(
                   SubSeq(buf, VARIABLE_LENGTH_OFFSET + 1,
                          VARIABLE_LENGTH_OFFSET + VARIABLE_LENGTH_SIZE),
                   Len(buf) - HEADER_SIZE - CHECKSUM_SIZE,
                   opts.variable_length)
        payload == SubSeq(buf, VARIABLE_OFFSET + 1, VARIABLE_OFFSET + len.take)
        sum == checksum_validate(
                   SubSeq(buf, VARIABLE_OFFSET + len.take + 1,
                          VARIABLE_OFFSET + len.take + CHECKSUM_SIZE),
                   payload,
                   opts.checksum)
    IN  IF ~sig.ok THEN DecodeError("SignatureMismatch")
        ELSE IF ~len.ok THEN DecodeError("LengthMismatch")
        ELSE IF ~sum.ok THEN DecodeError("ChecksumMismatch")
        ELSE [res |-> "ok", signature |-> sig.val, comment |-> com,
              variable_length |-> len.val, variable |-> payload, checksum |-> sum.val]

\* The buffers handed to decode: a well-formed file with payload 1, 2, 3, the
\* same with stored checksum 7, with a wrong signature, with declared length 2,
\* and a well-formed file with an empty payload.
HelloComment ==
    set_comment(Fill(COMMENT_SIZE, SPACE_AS_NUMBER), <<104, 101, 108, 108, 111>>, TRUE)

DecodeInputs ==
    << TI_SIGNATURE \o HelloComment \o <<3, 0>> \o <<1, 2, 3>> \o <<6, 0>>,
       TI_SIGNATURE \o HelloComment \o <<3, 0>> \o <<1, 2, 3>> \o <<7, 0>>,
       Put(TI_SIGNATURE, 0, 0) \o HelloComment \o <<3, 0>> \o <<1, 2, 3>> \o <<6, 0>>,
       TI_SIGNATURE \o HelloComment \o <<2, 0>> \o <<1, 2, 3>> \o <<6, 0>>,
       TI_SIGNATURE \o HelloComment \o <<0, 0>> \o <<>> \o <<0, 0>> >>

\* The options in which one check departs from the default mode, and those
\* with one mode for every check.
FileReadOptionsSet ==
    { o \in [signature : ReadModes, variable_length : ReadModes, checksum : ReadModes] :
        \/ Cardinality({f \in DOMAIN o : o[f] # ReadMode_default}) <= 1
        \/ (o.signature = o.variable_length /\ o.variable_length = o.checksum) }

Call_decode(k, opts) ==
    LET r == File_decode(DecodeInputs[k], opts)
    IN  /\ last' = [Op("decode") EXCEPT !.res = r.res, !.buf = k, !.opts = opts]
        /\ IF r.res = "ok"
           THEN /\ signature' = r.signature
                /\ comment' = r.comment
                /\ variable_length' = r.variable_length
                /\ variable' = r.variable
                /\ checksum' = r.checksum
           ELSE UNCHANGED fields
        /\ UNCHANGED writes

(***************************************************************************)
(* The whole file: every operation, the comment written from FileTexts.    *)
(***************************************************************************)
FileTexts == { <<104, 101, 108, 108, 111>> }
FileRawIndices == {0}

FileCommentNext ==
    \/ \E text \in FileTexts, zt \in BOOLEAN : Call_set_comment(text, zt)
    \/ Call_make_comment_zero_terminated
    \/ Call_make_comment_padded

SafeNext ==
    \/ FileCommentNext
    \/ \E i \in FileRawIndices, b \in RawBytes : Write_comment_raw_mut(i, b)
    \/ \E v \in Payloads : Write_variable_mut(v)

Next ==
    \/ \E i \in 0..(VARIABLE_LENGTH_SIZE - 1), b \in HeaderBytes :
          Write_variable_length_raw_mut(i, b)
    \/ \E i \in 0..(CHECKSUM_SIZE - 1), b \in HeaderBytes : Write_checksum_raw_mut(i, b)
    \/ \E i \in SignatureIndices, b \in HeaderBytes : Write_signature_mut(i, b)
    \/ SafeNext

Spec == Init /\ [][Next]_vars

\* Only the operations that are not unchecked accessors, on a file built from
\* valid fields.
SpecSafe == Init /\ [][SafeNext]_vars

\* Files decoded from raw bytes, and the comment operations on them.
DecodeNext ==
    \/ \E k \in 1..Len(DecodeInputs), opts \in FileReadOptionsSet : Call_decode(k, opts)
    \/ FileCommentNext

SpecDecode == Init /\ [][DecodeNext]_vars

(***************************************************************************)
(* Properties.                                                             *)
(***************************************************************************)
Hello == <<104, 101, 108, 108, 111>>
AllSpaces == Fill(COMMENT_SIZE, SPACE_AS_NUMBER)
Ok(s) == [ok |-> TRUE, val |-> s]
NoNull(s) == \A k \in 1..Len(s) : s[k] # 0

\* The two bytes of bytes() at offsets 0x35 and 0x36.
EmittedLength ==
    SubSeq(File_bytes, VARIABLE_LENGTH_OFFSET + 1, VARIABLE_LENGTH_OFFSET + VARIABLE_LENGTH_SIZE)

\* C1, as claimed: in every state, bytes 0x35..0x37 of bytes() are the
\* little-endian u16 of the payload's current serialized length.
C1_LengthRecomputed == EmittedLength = u16_to_le_bytes(Len(variable))

\* C1, amended: in every state, bytes 0x35..0x37 of bytes() are the stored
\* length bytes, and they are the little-endian u16 of the payload's current
\* serialized length exactly when variable_length() equals that length.
C1_LengthStoredEmitted ==
    /\ Len(File_bytes) >= 55
    /\ <<File_bytes[54], File_bytes[55]>> = variable_length
    /\ (EmittedLength = u16_to_le_bytes(Len(variable)))
           <=> (File_variable_length = Len(variable))

\* C1: the stored length bytes were changed and no longer match the payload.
C1_Witness ==
    /\ last.op = "variable_length_raw_mut"
    /\ File_variable_length # Len(variable)
    /\ EmittedLength = variable_length

\* C8, as claimed: in every state size() is the number of bytes of bytes(),
\* checksum_offset() is 55 + variable_length() and is where the checksum
\* starts in bytes(), and checksum_offset() + 2 = size() = len(bytes()).
C8_SizeIsBytesLen ==
    /\ File_size = Len(File_bytes)
    /\ File_checksum_offset = 55 + File_variable_length
    /\ File_checksum_offset + 2 = File_size
    /\ SubSeq(File_bytes, File_checksum_offset + 1, File_checksum_offset + 2) = checksum

\* C8, amended: in every state checksum_offset() = 55 + variable_length() and
\* checksum_offset() + 2 = size(); bytes() has 55 + len(variable.bytes()) + 2
\* bytes and ends with the checksum bytes; size() = len(bytes()), and
\* checksum_offset() is where the checksum starts, exactly when
\* variable_length() = len(variable.bytes()).
C8_SizeAndOffset ==
    /\ File_checksum_offset = 55 + File_variable_length
    /\ File_checksum_offset + 2 = File_size
    /\ Len(File_bytes) = 55 + Len(variable) + 2
    /\ SubSeq(File_bytes, Len(File_bytes) - 1, Len(File_bytes)) = checksum
    /\ (File_size = Len(File_bytes)) <=> (File_variable_length = Len(variable))
    /\ File_variable_length = Len(variable) =>
           SubSeq(File_bytes, File_checksum_offset + 1, File_checksum_offset + 2) = checksum

\* C8: the variable was changed and size() is no longer the length of bytes().
C8_Witness ==
    /\ last.op = "variable_mut"
    /\ Len(variable) > 0
    /\ File_size # Len(File_bytes)

\* C5, as claimed: from a file on which both hold, no sequence of operations
\* other than the unchecked accessors makes variable_length() differ from
\* len(variable.bytes()) or checksum() from the sum of the payload bytes
\* mod 65536.
C5_CrossFieldInvariants ==
    /\ File_variable_length = Len(variable)
    /\ File_checksum = checksum_compute(variable)

\* C2, as claimed: after set_comment(s, zero_terminated = true) with s of at
\* most 42 bytes, comment(trim = false) returns Ok(s).
C2_RoundTrip ==
    (last.op = "set_comment" /\ last.zt /\ Len(last.text) <= 42)
        => comment_str(comment, FALSE) = Ok(last.text)

\* C2, amended: after set_comment(s, zero_terminated = true) with s of at
\* most 42 bytes and holding no null byte, comment(trim = false) returns Ok(s).
C2_RoundTripNoNull ==
    (last.op = "set_comment" /\ last.zt /\ Len(last.text) <= 42 /\ NoNull(last.text))
        => comment_str(comment, FALSE) = Ok(last.text)

\* C2: a three-byte text with a two-byte character was set, zero-terminated,
\* over a region whose last byte is not a space.
C2_Witness ==
    /\ last.op = "set_comment"
    /\ last.zt
    /\ last.text = <<104, 195, 169>>
    /\ At(comment, 41) = 195
    /\ comment_str(comment, FALSE) = Ok(<<104, 195, 169>>)

\* C3, as claimed: a region of 42 spaces is not zero-terminated and has comment
\* length 0; make_comment_zero_terminated then turns the last space (index 41)
\* into a null byte, and the comment length is 41.
C3_ScenarioB_LastSpace ==
    [][(comment = AllSpaces /\ last'.op = "make_comment_zero_terminated")
          => /\ ~is_comment_zero_terminated(comment)
             /\ comment_length(comment) = 0
             /\ comment' = Put(AllSpaces, 41, 0)
             /\ comment_length(comment') = 41]_vars

\* C3, amended: a region of 42 spaces is not zero-terminated and has comment
\* length 0; make_comment_zero_terminated then turns the first space (index 0)
\* into a null byte, and the comment length is still 0.
C3_ScenarioB_FirstSpace ==
    [][(comment = AllSpaces /\ last'.op = "make_comment_zero_terminated")
          => /\ ~is_comment_zero_terminated(comment)
             /\ comment_length(comment) = 0
             /\ comment' = Put(AllSpaces, 0, 0)
             /\ is_comment_zero_terminated(comment')
             /\ comment_length(comment') = 0]_vars

\* C3: make_comment_zero_terminated has just changed a region of 42 spaces.
C3_Witness ==
    /\ last.op = "make_comment_zero_terminated"
    /\ last.changed
    /\ \A i \in 1..41 : At(comment, i) = SPACE_AS_NUMBER
    /\ ~NoNull(comment)

\* C4: on every region, make_comment_padded twice gives the bytes that one call
\* gives, and so does make_comment_zero_terminated.
C4_Idempotent ==
    /\ make_comment_padded(make_comment_padded(comment)) = make_comment_padded(comment)
    /\ make_comment_zero_terminated(make_comment_zero_terminated(comment))
           = make_comment_zero_terminated(comment)
    /\ last.op = "make_comment_padded" => make_comment_padded(comment) = comment
    /\ last.op = "make_comment_zero_terminated"
           => make_comment_zero_terminated(comment) = comment

\* C4: make_comment_padded has just replaced a terminator that was followed by
\* bytes other than spaces.
C4_Witness ==
    /\ last.op = "make_comment_padded"
    /\ last.changed
    /\ comment_length(comment) = 5
    /\ comment_ending_spaces(comment) = 37

\* C6: set_comment(text, zero_terminated) with text of n bytes writes the first
\* min(n, 42) bytes of text at the start of the region; if n < 42 and
\* zero_terminated, byte n is 0 and the bytes after it keep their values (for
\* "hello" the comment length is 5); if n < 42 and not zero_terminated, every
\* byte from n on is a space; no other field of the file changes.
C6_SetCommentPost ==
    [][last'.op = "set_comment"
          => LET text == last'.text
                 n == Len(text)
                 m == IF n < 42 THEN n ELSE 42
             IN  /\ Len(comment') = 42
                 /\ \A i \in 0..(m - 1) : At(comment', i) = text[i + 1]
                 /\ (n < 42 /\ last'.zt)
                        => /\ At(comment', n) = 0
                           /\ \A i \in (n + 1)..41 : At(comment', i) = At(comment, i)
                 /\ (n < 42 /\ ~last'.zt)
                        => \A i \in n..41 : At(comment', i) = 32
                 /\ (text = Hello /\ last'.zt)
                        => /\ SubSeq(comment', 1, 6) = <<104, 101, 108, 108, 111, 0>>
                           /\ comment_length(comment') = 5
                 /\ UNCHANGED <<signature, variable_length, variable, checksum>>]_vars

\* C6: "hello" was set zero-terminated and the last byte of the region kept a
\* value written before.
C6_Witness ==
    /\ last.op = "set_comment"
    /\ last.zt
    /\ last.text = Hello
    /\ At(comment, 41) = 65
    /\ comment_length(comment) = 5

\* C9: make_comment_zero_terminated leaves comment_length() as it was, leaves
\* comment(trim = true) as it was when that was Ok, and leaves the region
\* zero-terminated unless the region had no null byte and did not end in a
\* space, in which case the region is unchanged.
C9_ZeroTerminatedPreserves ==
    [][last'.op = "make_comment_zero_terminated"
          => /\ comment_length(comment') = comment_length(comment)
             /\ comment_str(comment, TRUE).ok
                    => comment_str(comment', TRUE) = comment_str(comment, TRUE)
             /\ IF NoNull(comment) /\ At(comment, 41) # 32
                THEN comment' = comment
                ELSE is_comment_zero_terminated(comment')]_vars

\* C9: make_comment_zero_terminated has just put a terminator after a text
\* that was padded with spaces.
C9_Witness ==
    /\ last.op = "make_comment_zero_terminated"
    /\ last.changed
    /\ comment_length(comment) = 3
    /\ comment_str(comment, TRUE) = Ok(<<104, 195, 169>>)

\* The number of spaces the region ends with: the largest k such that the
\* last k bytes are all spaces.
TrailingSpaces(c) ==
    CHOOSE k \in 0..42 :
        /\ \A i \in (42 - k)..41 : At(c, i) = 32
        /\ k < 42 => At(c, 41 - k) # 32

\* C10: comment_length() is between 0 and 42; it is the position of the first
\* null byte if there is one and otherwise 42 minus the number of trailing
\* spaces; and whenever comment(trim = true) is Ok(s) it is the byte length
\* of s.
C10_LengthAgrees ==
    /\ comment_length(comment) \in 0..42
    /\ \A i \in 0..41 :
           (At(comment, i) = 0 /\ \A j \in 0..(i - 1) : At(comment, j) # 0)
               => comment_length(comment) = i
    /\ NoNull(comment) => comment_length(comment) = 42 - TrailingSpaces(comment)
    /\ comment_str(comment, TRUE).ok
           => comment_length(comment) = Len(comment_str(comment, TRUE).val)

\* C10: a region with no null byte that holds a text padded with spaces.
C10_Witness ==
    /\ NoNull(comment)
    /\ comment_ending_spaces(comment) = 37
    /\ comment_str(comment, TRUE) = Ok(Hello)
    /\ comment_length(comment) = 5

\* C7: decoding a buffer whose signature and declared length are right and
\* whose stored checksum is not the sum of the payload bytes mod 65536 fails
\* with ChecksumMismatch and yields no file when the checksum mode is Error,
\* succeeds with checksum() the recomputed sum under Fix (payload 1, 2, 3 with
\* stored 7 gives 6), and succeeds with checksum() the stored value under
\* Ignore; the default ReadMode is Error.
C7_ChecksumModes ==
    [][last'.op = "decode"
          => LET buf == DecodeInputs[last'.buf]
                 mode == last'.opts.checksum
                 payload == SubSeq(buf, 56, Len(buf) - 2)
                 stored == buf[Len(buf) - 1] + 256 * buf[Len(buf)]
                 sum == SumBytes(payload) % 65536
             IN  (/\ SubSeq(buf, 1, 11) = TI_SIGNATURE
                  /\ buf[54] + 256 * buf[55] = Len(payload)
                  /\ stored # sum)
                     => /\ mode = ReadMode_error
                            => last'.res = "ChecksumMismatch" /\ UNCHANGED fields
                        /\ mode = ReadMode_fix
                            => /\ last'.res = "ok"
                               /\ File_checksum' = sum
                               /\ variable' = payload
                               /\ (payload = <<1, 2, 3>> /\ stored = 7) => File_checksum' = 6
                        /\ mode = ReadMode_ignore
                            => /\ last'.res = "ok"
                               /\ File_checksum' = stored
                               /\ variable' = payload]_vars
    /\ ReadMode_default = ReadMode_error
    /\ FileReadOptions_default.checksum = ReadMode_error

\* C7: payload 1, 2, 3 with stored checksum 7 was decoded under Fix.
C7_Witness ==
    /\ last.op = "decode"
    /\ last.buf = 2
    /\ last.opts.checksum = ReadMode_fix
    /\ last.res = "ok"
    /\ variable = <<1, 2, 3>>
    /\ File_checksum = 6

====
